---- MODULE Spec2Model ----
(***************************************************************************)
(* Streaming segmentation of the Dify LLM client                           *)
(* (open_llm_vtuber/agent/stateless_llm/dify_llm.py).                      *)
(*                                                                         *)
(* A Python str is a sequence of one-character strings.  Indices and       *)
(* slices keep Python's 0-based, half-open convention through Slice and    *)
(* CharAt, so every definition reads like the line it comes from.          *)
(* Characters outside ASCII are written by their code point: "U+3002" is   *)
(* the ideographic full stop.                                              *)
(***************************************************************************)
EXTENDS Integers, Sequences, FiniteSets, TLC

VARIABLES
    pc,               \* chat_completion: "init", "streaming" or "closed"
    conversation_id,  \* the conversation_id argument of chat_completion
    buffer,           \* self.buffer
    out,              \* what the generator has yielded, in order
    received,         \* the answer deltas received so far, concatenated
    last,             \* the kind of the line handled last
    nlines,           \* the number of response lines handled
    carried,          \* whether a handled event carried a conversation_id
    answers,          \* the answer deltas of the handled events, one by one
    cur,              \* the invocation that is running: 1 or 2
    other,            \* the locals of the invocation that is suspended
    input,            \* the text handed to _split_complete_sentences
    sentences,        \* what it returned: <<>> or <<unit, remainder>>
    applied,          \* whether sentences is the result for input
    op,               \* the call made last outside the stream, with its arguments
    ret,              \* what that call returned or raised
    files,            \* the files under chat_history: path -> content
    stored            \* path -> the messages stored since the file was created

streamVars == <<pc, conversation_id, buffer, out, received, last, nlines, carried>>
splitVars == <<input, sentences, applied>>
concVars == <<answers, cur, other>>
callVars == <<op, ret, files, stored>>
vars == <<pc, conversation_id, buffer, out, received, last, nlines, carried,
          answers, cur, other, input, sentences, applied,
          op, ret, files, stored>>

------------------------------------------------------------------------------
(* Characters *)

FwStop      == "U+3002"
FwQuestion  == "U+FF1F"
FwBang      == "U+FF01"
FwSemicolon == "U+FF1B"
FwComma     == "U+FF0C"
FwEnumComma == "U+3001"
FwRParen    == "U+FF09"
FwRBracket  == "U+3011"
FwRAngle    == "U+300B"
FwColon     == "U+FF1A"

NL == "\n"

\* str.strip() with no argument removes these
Whitespace == {" ", "\n", "\t", "\r"}

Backtick == "U+0060"

Fence == <<Backtick, Backtick, Backtick>>
Pipe  == <<"|">>

------------------------------------------------------------------------------
(* Python str operations *)

Min(S) == CHOOSE x \in S : \A y \in S : x <= y
Max(S) == CHOOSE x \in S : \A y \in S : x >= y

\* text[a:b] for 0 <= a, 0 <= b
Slice(text, a, b) ==
    LET hi == IF b > Len(text) THEN Len(text) ELSE b
    IN  IF a >= hi THEN <<>> ELSE SubSeq(text, a + 1, hi)

\* text[a:]
SliceFrom(text, a) == Slice(text, a, Len(text))

\* text[i]
CharAt(text, i) == text[i + 1]

MatchAt(text, pat, i) ==
    /\ i + Len(pat) <= Len(text)
    /\ \A k \in 1..Len(pat) : text[i + k] = pat[k]

\* text.find(pat, start): the lowest index >= start where pat occurs, or -1
find(text, pat, start) ==
    LET hits == {i \in start..(Len(text) - Len(pat)) : MatchAt(text, pat, i)}
    IN  IF hits = {} THEN -1 ELSE Min(hits)

\* text.rfind(pat): the highest index where pat occurs, or -1
rfind(text, pat) ==
    LET hits == {i \in 0..(Len(text) - Len(pat)) : MatchAt(text, pat, i)}
    IN  IF hits = {} THEN -1 ELSE Max(hits)

\* text.count(pat, start): occurrences that do not overlap, scanning from start
RECURSIVE count(_, _, _)
count(text, pat, start) ==
    LET p == find(text, pat, start)
    IN  IF p = -1 THEN 0 ELSE 1 + count(text, pat, p + Len(pat))

startswith(text, pat) == MatchAt(text, pat, 0)

endswith(text, pat) ==
    Len(pat) <= Len(text) /\ MatchAt(text, pat, Len(text) - Len(pat))

\* text.strip()
strip(text) ==
    LET keep == {i \in 1..Len(text) : text[i] \notin Whitespace}
    IN  IF keep = {} THEN <<>> ELSE SubSeq(text, Min(keep), Max(keep))

\* text.split(NL)
RECURSIVE split(_)
split(text) ==
    LET p == find(text, <<NL>>, 0)
    IN  IF p = -1 THEN <<text>>
        ELSE <<Slice(text, 0, p)>> \o split(SliceFrom(text, p + 1))

\* NL.join(lines)
RECURSIVE join(_)
join(lines) ==
    IF lines = <<>> THEN <<>>
    ELSE IF Len(lines) = 1 THEN lines[1]
    ELSE lines[1] \o <<NL>> \o join(Tail(lines))

------------------------------------------------------------------------------
(* _split_normal_text *)

primary_endings == {FwStop, FwQuestion, FwBang, FwSemicolon}

secondary_endings ==
    {FwComma, FwEnumComma, FwRParen, FwRBracket, FwRAngle, "U+0022", "U+0027", FwColon}

LengthThreshold == 50
SearchWindow == 100

\* any(ending in text[:i] for ending in primary_endings)
has_primary(text, i) == \E j \in 0..(i - 1) : CharAt(text, j) \in primary_endings

\* LoopReturns without the i > 0 guards
LoopReturns_AtZero(text, i) ==
    IF CharAt(text, i) \in primary_endings
    THEN TRUE
    ELSE CharAt(text, i) = NL /\ ~has_primary(text, i)

\* The iteration i of the first loop returns: a primary ending, or a newline
\* with no primary ending before it, in both cases only when i > 0.
LoopReturns(text, i) ==
    IF CharAt(text, i) \in primary_endings
    THEN i > 0
    ELSE /\ CharAt(text, i) = NL
         /\ ~has_primary(text, i)
         /\ i > 0

\* The index at which the first loop returns, or -1 when it runs to its end.
PrimaryCut(text) ==
    LET stops == {i \in 0..(Len(text) - 1) : LoopReturns(text, i)}
    IN  IF stops = {} THEN -1 ELSE Min(stops)

\* search_range without the window: the whole text
search_range_Unbounded(text) == Len(text)

\* search_range = min(len(text), 100)
search_range(text) == IF Len(text) < SearchWindow THEN Len(text) ELSE SearchWindow

\* last_idx after the second loop: the last secondary ending in the window
SecondaryCut(text) ==
    LET found == {i \in 0..(search_range(text) - 1) :
                    CharAt(text, i) \in secondary_endings}
    IN  IF found = {} THEN -1 ELSE Max(found)

\* last_space = text[:search_range].rfind(' ')
SpaceCut(text) == rfind(Slice(text, 0, search_range(text)), <<" ">>)

\* [text[:i+1], text[i+1:]]
CutAfter(text, i) == <<Slice(text, 0, i + 1), SliceFrom(text, i + 1)>>

\* The branch taken once the first loop found nothing: len(text) > 50
LongTextSplit(text) ==
    IF SecondaryCut(text) > 0 THEN CutAfter(text, SecondaryCut(text))
    ELSE IF SpaceCut(text) > 0 THEN CutAfter(text, SpaceCut(text))
    ELSE <<>>

\* _split_normal_text with len(text) >= 50 for len(text) > 50
_split_normal_text_Ge(text) ==
    IF PrimaryCut(text) # -1 THEN CutAfter(text, PrimaryCut(text))
    ELSE IF Len(text) >= LengthThreshold THEN LongTextSplit(text)
    ELSE <<>>

_split_normal_text(text) ==
    IF PrimaryCut(text) # -1 THEN CutAfter(text, PrimaryCut(text))
    ELSE IF Len(text) > LengthThreshold THEN LongTextSplit(text)
    ELSE <<>>

------------------------------------------------------------------------------
(* _split_complete_sentences *)

\* min(pos for pos in [code_start, table_start] if pos != -1, default=-1)
FirstSpecial(code_start, table_start) ==
    LET ps == {code_start, table_start} \ {-1}
    IN  IF ps = {} THEN -1 ELSE Min(ps)

\* PlainPrefix without the newline appended
PlainPrefix_NoNewline(text, first_special) ==
    <<Slice(text, 0, first_special), SliceFrom(text, first_special)>>

\* The plain text before the first special marker, forced out with a newline
PlainPrefix(text, first_special) ==
    LET normal_text == Slice(text, 0, first_special)
    IN  <<IF endswith(normal_text, <<NL>>) THEN normal_text
          ELSE normal_text \o <<NL>>,
          SliceFrom(text, first_special)>>

\* CodeBlock with count(...) < 1 for count(...) < 2: an open block passes
CodeBlock_NoWait(text, code_start) ==
    IF count(text, Fence, code_start) < 1 THEN <<>>
    ELSE LET end_idx    == find(text, Fence, code_start + 3)
             code_block == Slice(text, code_start, end_idx + 3)
             remaining  == SliceFrom(text, end_idx + 3)
         IN  <<IF remaining # <<>> /\ ~startswith(remaining, <<NL>>)
               THEN code_block \o <<NL>>
               ELSE code_block,
               remaining>>

\* CodeBlock without the test that remaining is non-empty
CodeBlock_AlwaysNewline(text, code_start) ==
    IF count(text, Fence, code_start) < 2 THEN <<>>
    ELSE LET end_idx    == find(text, Fence, code_start + 3)
             code_block == Slice(text, code_start, end_idx + 3)
             remaining  == SliceFrom(text, end_idx + 3)
         IN  <<IF ~startswith(remaining, <<NL>>)
               THEN code_block \o <<NL>>
               ELSE code_block,
               remaining>>

\* The fenced code block that starts at code_start
CodeBlock(text, code_start) ==
    IF count(text, Fence, code_start) < 2 THEN <<>>
    ELSE LET end_idx    == find(text, Fence, code_start + 3)
             code_block == Slice(text, code_start, end_idx + 3)
             remaining  == SliceFrom(text, end_idx + 3)
         IN  <<IF remaining # <<>> /\ ~startswith(remaining, <<NL>>)
               THEN code_block \o <<NL>>
               ELSE code_block,
               remaining>>

IsPipeLine(line) == startswith(strip(line), Pipe)

\* The loop over the lines from index i on, with the loop's three variables;
\* the result is their values when the loop ends or breaks.
RECURSIVE TableScan(_, _, _, _, _)
TableScan(lines, i, in_table, table_lines, remaining_lines) ==
    IF i >= Len(lines)
    THEN [table_lines |-> table_lines, remaining_lines |-> remaining_lines]
    ELSE IF IsPipeLine(lines[i + 1])
    THEN TableScan(lines, i + 1, TRUE, Append(table_lines, lines[i + 1]),
                   remaining_lines)
    ELSE IF in_table
    THEN [table_lines |-> table_lines,
          remaining_lines |-> SubSeq(lines, i + 1, Len(lines))]
    ELSE TableScan(lines, i + 1, in_table, table_lines,
                   Append(remaining_lines, lines[i + 1]))

\* TableBlock with remaining_lines = lines[i+1:] for lines[i:]
TableBlock_SkipsLine(text, table_start) ==
    LET lines == split(SliceFrom(text, table_start))
        scan  == TableScan(lines, 0, FALSE, <<>>, <<>>)
    IN  IF scan.table_lines # <<>>
        THEN <<join(scan.table_lines),
               join(IF scan.remaining_lines = <<>> THEN <<>>
                    ELSE Tail(scan.remaining_lines))>>
        ELSE <<>>

\* The table that starts at table_start
TableBlock(text, table_start) ==
    LET lines == split(SliceFrom(text, table_start))
        scan  == TableScan(lines, 0, FALSE, <<>>, <<>>)
    IN  IF scan.table_lines # <<>>
        THEN <<join(scan.table_lines), join(scan.remaining_lines)>>
        ELSE <<>>

\* _split_complete_sentences without the test of text.strip()
_split_complete_sentences_NoBlankCheck(text) ==
    LET code_start    == find(text, Fence, 0)
        table_start   == find(text, Pipe, 0)
        first_special == FirstSpecial(code_start, table_start)
    IN  IF code_start = -1 /\ table_start = -1 THEN _split_normal_text(text)
        ELSE IF first_special > 0 THEN PlainPrefix(text, first_special)
        ELSE IF first_special = code_start THEN CodeBlock(text, code_start)
        ELSE IF first_special = table_start THEN TableBlock(text, table_start)
        ELSE <<>>

\* _split_complete_sentences with first_special >= 0 for first_special > 0:
\* a marker at the start of the text is treated as having text before it
_split_complete_sentences_PrefixAtZero(text) ==
    LET code_start    == find(text, Fence, 0)
        table_start   == find(text, Pipe, 0)
        first_special == FirstSpecial(code_start, table_start)
    IN  IF strip(text) = <<>> THEN <<>>
        ELSE IF code_start = -1 /\ table_start = -1 THEN _split_normal_text(text)
        ELSE IF first_special >= 0 THEN PlainPrefix(text, first_special)
        ELSE IF first_special = code_start THEN CodeBlock(text, code_start)
        ELSE IF first_special = table_start THEN TableBlock(text, table_start)
        ELSE <<>>

_split_complete_sentences(text) ==
    LET code_start    == find(text, Fence, 0)
        table_start   == find(text, Pipe, 0)
        first_special == FirstSpecial(code_start, table_start)
    IN  IF strip(text) = <<>> THEN <<>>
        ELSE IF code_start = -1 /\ table_start = -1 THEN _split_normal_text(text)
        ELSE IF first_special > 0 THEN PlainPrefix(text, first_special)
        ELSE IF first_special = code_start THEN CodeBlock(text, code_start)
        ELSE IF first_special = table_start THEN TableBlock(text, table_start)
        ELSE <<>>

------------------------------------------------------------------------------
(* chat_completion: one invocation, one step per response line *)

MaxLines == 3

\* The answer deltas the backend sends
Deltas == {<<"x">>, <<NL>>, Fence, <<"x", NL, "|", NL>>}

\* What event_data.get(...) gives for the four fields read; "" is a missing
\* or empty field.
Events ==
    [event : {"message", "message_end", "error", "ping"},
     conversation_id : {"", "c1"},
     message_id : {"", "m1"},
     answer : Deltas \cup {<<>>}]

Text(unit)    == [kind |-> "text", val |-> unit]
ConvMarker(c) == [kind |-> "conversation_id", val |-> c]
MsgMarker(m)  == [kind |-> "message_id", val |-> m]
ErrorOut(why) == [kind |-> "error", val |-> why]

StreamInit ==
    /\ pc = "init"
    /\ conversation_id \in {"", "c0"}
    /\ buffer = <<>>
    /\ out = <<>>
    /\ received = <<>>
    /\ last = "none"
    /\ nlines = 0
    /\ carried = FALSE

\* except Exception: yield the error string; finally: self.buffer = ""
Raise(o, why) ==
    /\ out' = Append(o, ErrorOut(why))
    /\ buffer' = <<>>
    /\ pc' = "closed"

\* session.post(...): a connection failure or a status other than 200 raises
Request ==
    /\ pc = "init"
    /\ \E status \in {200, 500, 0} :
         IF status = 200
         THEN /\ pc' = "streaming"
              /\ UNCHANGED <<buffer, out>>
         ELSE Raise(out, IF status = 0 THEN "connection" ELSE "status")
    /\ last' = "request"
    /\ UNCHANGED <<conversation_id, received, nlines, carried>>

\* line.startswith("data: ")
DataPrefix == <<"d", "a", "t", "a", ":", " ">>

\* The texts json.loads accepts, among the payloads of RawLines
JsonTexts == {<<"{", "}">>}

\* json.loads(text) returns rather than raising JSONDecodeError
ParsesAsJson(text) == text \in JsonTexts

\* Response lines as response.content delivers them: blank lines, a comment,
\* another SSE field, a data field without the space, a data line cut short,
\* and well-formed data lines
RawLines ==
    {<<>>, <<NL>>, <<" ", NL>>,
     <<":", "k", NL>>,
     <<"i", "d", ":", " ", "1", NL>>,
     <<"d", "a", "t", "a", ":", "{", "}", NL>>,
     DataPrefix \o <<"{", NL>>,
     DataPrefix \o <<NL>>,
     DataPrefix \o <<"{", "}", NL>>,
     <<" ">> \o DataPrefix \o <<"{", "}", " ", NL>>}

\* What the loop body does with a line: skip it as blank, skip it for
\* lack of the prefix, skip it on JSONDecodeError, or handle the event
LineKind(line) ==
    LET l == strip(line)
    IN  IF l = <<>> THEN "blank"
        ELSE IF ~startswith(l, DataPrefix) THEN "noprefix"
        ELSE IF ~ParsesAsJson(SliceFrom(l, 6)) THEN "malformed"
        ELSE "event"

\* IgnoredLine with JSONDecodeError reaching the outer except clause
IgnoredLine_Raises ==
    /\ pc = "streaming"
    /\ nlines < MaxLines
    /\ \E line \in RawLines :
         /\ LineKind(line) # "event"
         /\ last' = LineKind(line)
         /\ IF LineKind(line) = "malformed"
            THEN Raise(out, "transport")
            ELSE UNCHANGED <<pc, buffer, out>>
    /\ nlines' = nlines + 1
    /\ UNCHANGED <<conversation_id, received, carried>>

\* A blank line, a line without the "data: " prefix, or one whose JSON does
\* not parse: continue
IgnoredLine ==
    /\ pc = "streaming"
    /\ nlines < MaxLines
    /\ \E line \in RawLines :
         /\ LineKind(line) # "event"
         /\ last' = LineKind(line)
    /\ nlines' = nlines + 1
    /\ UNCHANGED <<pc, conversation_id, buffer, out, received, carried>>

\* event_data.get("conversation_id") was truthy for this or an earlier event
Carries(e) == carried \/ e.conversation_id # ""

\* if not conversation_id and event_data.get("conversation_id"): yield marker
\* WithConvMarker without the test of the conversation_id the caller gave
WithConvMarker_Always(o, e) ==
    IF e.conversation_id # ""
    THEN Append(o, ConvMarker(e.conversation_id))
    ELSE o

WithConvMarker(o, e) ==
    IF conversation_id = "" /\ e.conversation_id # ""
    THEN Append(o, ConvMarker(e.conversation_id))
    ELSE o

\* if event_data.get("message_id"): yield marker
WithMsgMarker(o, e) ==
    IF e.message_id # "" THEN Append(o, MsgMarker(e.message_id)) ELSE o

\* ErrorEvent raising after its yield instead of leaving the loop
ErrorEvent_Raises ==
    /\ pc = "streaming"
    /\ \E e \in Events :
         /\ e.event = "error"
         /\ Raise(Append(WithConvMarker(out, e), ErrorOut("backend")), "transport")
         /\ carried' = Carries(e)
    /\ last' = "error"
    /\ nlines' = nlines + 1
    /\ UNCHANGED <<conversation_id, received>>

\* ErrorEvent without the break: the loop goes on to the next line
ErrorEvent_NoBreak ==
    /\ pc = "streaming"
    /\ nlines < MaxLines
    /\ \E e \in Events :
         /\ e.event = "error"
         /\ out' = Append(WithConvMarker(out, e), ErrorOut("backend"))
         /\ carried' = Carries(e)
    /\ last' = "error"
    /\ nlines' = nlines + 1
    /\ UNCHANGED <<pc, conversation_id, buffer, received>>

ErrorEvent ==
    /\ pc = "streaming"
    /\ \E e \in Events :
         /\ e.event = "error"
         /\ out' = Append(WithConvMarker(out, e), ErrorOut("backend"))
         /\ carried' = Carries(e)
    /\ buffer' = <<>>
    /\ pc' = "closed"
    /\ last' = "error"
    /\ nlines' = nlines + 1
    /\ UNCHANGED <<conversation_id, received>>

\* MessageEvent without the test of answer: the buffer is split again on
\* an event that brings no text
MessageEvent_SplitsAlways ==
    /\ pc = "streaming"
    /\ nlines < MaxLines
    /\ \E e \in Events :
         /\ e.event = "message"
         /\ carried' = Carries(e)
         /\ LET o    == WithMsgMarker(WithConvMarker(out, e), e)
                buf  == buffer \o e.answer
                sent == _split_complete_sentences(buf)
            IN  /\ received' = received \o e.answer
                /\ IF sent # <<>>
                   THEN /\ out' = Append(o, Text(sent[1]))
                        /\ buffer' = sent[2]
                   ELSE /\ out' = o
                        /\ buffer' = buf
    /\ last' = "message"
    /\ nlines' = nlines + 1
    /\ UNCHANGED <<pc, conversation_id>>

MessageEvent ==
    /\ pc = "streaming"
    /\ nlines < MaxLines
    /\ \E e \in Events :
         /\ e.event = "message"
         /\ carried' = Carries(e)
         /\ LET o    == WithMsgMarker(WithConvMarker(out, e), e)
                buf  == buffer \o e.answer
                sent == _split_complete_sentences(buf)
            IN  /\ received' = received \o e.answer
                /\ IF e.answer # <<>> /\ sent # <<>>
                   THEN /\ out' = Append(o, Text(sent[1]))
                        /\ buffer' = sent[2]
                   ELSE /\ out' = o
                        /\ buffer' = buf
    /\ last' = "message"
    /\ nlines' = nlines + 1
    /\ UNCHANGED <<pc, conversation_id>>

\* MessageEndEvent without the yield of the remaining buffer
MessageEndEvent_NoFlush ==
    /\ pc = "streaming"
    /\ \E e \in Events :
         /\ e.event = "message_end"
         /\ carried' = Carries(e)
         /\ out' = WithConvMarker(out, e)
    /\ buffer' = <<>>
    /\ pc' = "closed"
    /\ last' = "message_end"
    /\ nlines' = nlines + 1
    /\ UNCHANGED <<conversation_id, received>>

MessageEndEvent ==
    /\ pc = "streaming"
    /\ \E e \in Events :
         /\ e.event = "message_end"
         /\ carried' = Carries(e)
         /\ LET o == WithConvMarker(out, e)
            IN  out' = IF buffer # <<>> THEN Append(o, Text(buffer)) ELSE o
    /\ buffer' = <<>>
    /\ pc' = "closed"
    /\ last' = "message_end"
    /\ nlines' = nlines + 1
    /\ UNCHANGED <<conversation_id, received>>

\* An event of any other kind: only the conversation-id check applies
OtherEvent ==
    /\ pc = "streaming"
    /\ nlines < MaxLines
    /\ \E e \in Events :
         /\ e.event = "ping"
         /\ out' = WithConvMarker(out, e)
         /\ carried' = Carries(e)
    /\ last' = "other"
    /\ nlines' = nlines + 1
    /\ UNCHANGED <<pc, conversation_id, buffer, received>>

\* The response body ends: the loop ends, finally clears the buffer
\* BodyEnd without the finally clause
BodyEnd_NoCleanup ==
    /\ pc = "streaming"
    /\ pc' = "closed"
    /\ last' = "eof"
    /\ UNCHANGED <<conversation_id, buffer, out, received, nlines, carried>>

\* BodyEnd yielding the buffer as message_end does
BodyEnd_Flushes ==
    /\ pc = "streaming"
    /\ out' = IF buffer # <<>> THEN Append(out, Text(buffer)) ELSE out
    /\ buffer' = <<>>
    /\ pc' = "closed"
    /\ last' = "eof"
    /\ UNCHANGED <<conversation_id, received, nlines, carried>>

BodyEnd ==
    /\ pc = "streaming"
    /\ buffer' = <<>>
    /\ pc' = "closed"
    /\ last' = "eof"
    /\ UNCHANGED <<conversation_id, out, received, nlines, carried>>

\* Reading or decoding a line raises (anything but a JSONDecodeError)
StreamException ==
    /\ pc = "streaming"
    /\ Raise(out, "transport")
    /\ last' = "exception"
    /\ UNCHANGED <<conversation_id, received, nlines, carried>>

\* What the handler of event e yields, in order, from the current state
Yields(e) ==
    LET sent == _split_complete_sentences(buffer \o e.answer)
    IN  WithConvMarker(<<>>, e) \o
        (IF e.event = "error" THEN <<ErrorOut("backend")>>
         ELSE IF e.event = "message"
         THEN WithMsgMarker(<<>>, e) \o
              (IF e.answer # <<>> /\ sent # <<>> THEN <<Text(sent[1])>> ELSE <<>>)
         ELSE IF e.event = "message_end" /\ buffer # <<>> THEN <<Text(buffer)>>
         ELSE <<>>)

\* The consumer closes the generator while it is suspended at the k-th yield
\* of an event handler: the rest of the handler does not run, finally does
ConsumerClose ==
    /\ pc = "streaming"
    /\ nlines < MaxLines
    /\ \E e \in Events :
         \E k \in 1..Len(Yields(e)) :
            /\ out' = out \o SubSeq(Yields(e), 1, k)
            /\ received' = IF e.event = "message" /\ Yields(e)[k].kind = "text"
                           THEN received \o e.answer
                           ELSE received
            /\ carried' = Carries(e)
    /\ buffer' = <<>>
    /\ pc' = "closed"
    /\ last' = "close"
    /\ nlines' = nlines + 1
    /\ UNCHANGED conversation_id

\* No call outside the stream has been made and no history file exists
CallIdle ==
    /\ op = [name |-> "none"]
    /\ ret = [kind |-> "none"]
    /\ files = [p \in {} |-> <<>>]
    /\ stored = [p \in {} |-> <<>>]

SplitIdle ==
    /\ input = <<>>
    /\ sentences = <<>>
    /\ applied = FALSE

\* The locals of an invocation that has not started
Unstarted(c) ==
    [pc |-> "init", conversation_id |-> c, out |-> <<>>, received |-> <<>>,
     last |-> "none", nlines |-> 0, carried |-> FALSE, answers |-> <<>>]

\* A single invocation runs
ConcIdle ==
    /\ answers = <<>>
    /\ cur = 1
    /\ other = Unstarted("")

Init == StreamInit /\ SplitIdle /\ ConcIdle /\ CallIdle

Next ==
    \/ Request /\ UNCHANGED splitVars /\ UNCHANGED concVars
         /\ UNCHANGED callVars
    \/ IgnoredLine /\ UNCHANGED splitVars /\ UNCHANGED concVars
         /\ UNCHANGED callVars
    \/ ErrorEvent /\ UNCHANGED splitVars /\ UNCHANGED concVars
         /\ UNCHANGED callVars
    \/ MessageEvent /\ UNCHANGED splitVars /\ UNCHANGED concVars
         /\ UNCHANGED callVars
    \/ MessageEndEvent /\ UNCHANGED splitVars /\ UNCHANGED concVars
         /\ UNCHANGED callVars
    \/ OtherEvent /\ UNCHANGED splitVars /\ UNCHANGED concVars
         /\ UNCHANGED callVars
    \/ BodyEnd /\ UNCHANGED splitVars /\ UNCHANGED concVars
         /\ UNCHANGED callVars
    \/ StreamException /\ UNCHANGED splitVars /\ UNCHANGED concVars
         /\ UNCHANGED callVars
    \/ ConsumerClose /\ UNCHANGED splitVars /\ UNCHANGED concVars
         /\ UNCHANGED callVars

Spec == Init /\ [][Next]_vars

------------------------------------------------------------------------------
(* Two chat_completion invocations in flight on one AsyncLLM instance.  Each *)
(* has its own locals; self.buffer belongs to the instance.  The event loop  *)
(* runs one of them at a time and may switch between two response lines,     *)
(* where the running one awaits its next line.                               *)

MaxConcLines == 1

\* The locals of the running invocation
Locals ==
    [pc |-> pc, conversation_id |-> conversation_id, out |-> out,
     received |-> received, last |-> last, nlines |-> nlines,
     carried |-> carried, answers |-> answers]

\* The running invocation is suspended and the other one resumes
Switch ==
    /\ other.pc # "closed"
    /\ other' = Locals
    /\ cur' = 3 - cur
    /\ pc' = other.pc
    /\ conversation_id' = other.conversation_id
    /\ out' = other.out
    /\ received' = other.received
    /\ last' = other.last
    /\ nlines' = other.nlines
    /\ carried' = other.carried
    /\ answers' = other.answers
    /\ UNCHANGED buffer
    /\ UNCHANGED splitVars
    /\ UNCHANGED callVars

\* A step of the running invocation; answers records the delta it took
Running ==
    /\ nlines' <= MaxConcLines
    /\ answers' = IF last' = "message"
                  THEN Append(answers, SliceFrom(received', Len(received)))
                  ELSE answers
    /\ UNCHANGED <<cur, other>>
    /\ UNCHANGED splitVars
    /\ UNCHANGED callVars

InitConc ==
    /\ pc = "init"
    /\ conversation_id = "c0"
    /\ buffer = <<>>
    /\ out = <<>>
    /\ received = <<>>
    /\ last = "none"
    /\ nlines = 0
    /\ carried = FALSE
    /\ answers = <<>>
    /\ cur = 1
    /\ other = Unstarted("c0")
    /\ SplitIdle
    /\ CallIdle

NextConc ==
    \/ Request /\ Running
    \/ IgnoredLine /\ Running
    \/ ErrorEvent /\ Running
    \/ MessageEvent /\ Running
    \/ MessageEndEvent /\ Running
    \/ OtherEvent /\ Running
    \/ BodyEnd /\ Running
    \/ StreamException /\ Running
    \/ Switch

SpecConc == InitConc /\ [][NextConc]_vars

------------------------------------------------------------------------------
(* The segmentation step on its own: every buffer of the input family, and *)
(* the step applied again to the remainder it returned.                    *)

MaxTokens == 4
PadSlack == 1

Tokens ==
    {<<"x">>, <<" ">>, <<NL>>, Pipe, <<FwStop>>, <<FwComma>>, <<Backtick>>, Fence}

RECURSIVE Flatten(_)
Flatten(ts) == IF ts = <<>> THEN <<>> ELSE Head(ts) \o Flatten(Tail(ts))

\* Every concatenation of at most MaxTokens tokens
ShortInputs ==
    UNION {{Flatten(ts) : ts \in [1..n -> Tokens]} : n \in 0..MaxTokens}

\* A run of n characters ch
Run(n, ch) == [i \in 1..n |-> ch]

Edges == {<<>>, <<" ">>, <<NL>>, <<FwStop>>, <<FwComma>>}

PadLengths == (LengthThreshold - PadSlack)..(LengthThreshold + PadSlack)

\* Buffers around the length threshold and the search window: two runs of
\* one character with at most one other character before, between and after
LongInputs ==
    {a \o Run(n, ch) \o b \o Run(m, ch) \o c :
        a \in Edges, b \in Edges, c \in Edges, ch \in {"x", " "},
        n \in PadLengths, m \in PadLengths \cup {0}}

\* "Hello```python\ncode\n```\n"
ExHello ==
    <<"H", "e", "l", "l", "o">> \o Fence \o <<"p", "y", "t", "h", "o", "n", NL,
      "c", "o", "d", "e", NL>> \o Fence \o <<NL>>

\* "|a|b|\n|-|-|\n|1|2|\nDone"
ExTable ==
    <<"|", "a", "|", "b", "|", NL, "|", "-", "|", "-", "|", NL,
      "|", "1", "|", "2", "|", NL, "D", "o", "n", "e">>

\* Six ideographs, a full stop, three ideographs, a full-width question mark
ExPlain ==
    <<"U+4ECA", "U+5929", "U+5929", "U+6C14", "U+5F88", "U+597D", FwStop,
      "U+660E", "U+5929", "U+5462", FwQuestion>>

\* The examples, and the table example as it arrives character by character
Examples ==
    {ExHello, ExPlain} \cup {Slice(ExTable, 0, n) : n \in 0..Len(ExTable)}

Inputs == ShortInputs \cup LongInputs \cup Examples

SplitInit ==
    /\ input \in Inputs
    /\ sentences = <<>>
    /\ applied = FALSE

StreamIdle ==
    /\ pc = "init"
    /\ conversation_id = ""
    /\ buffer = <<>>
    /\ out = <<>>
    /\ received = <<>>
    /\ last = "none"
    /\ nlines = 0
    /\ carried = FALSE

\* sentences = self._split_complete_sentences(input)
SplitApply ==
    /\ ~applied
    /\ sentences' = _split_complete_sentences(input)
    /\ applied' = TRUE
    /\ UNCHANGED input

\* The remainder is the next buffer
SplitAgain ==
    /\ applied
    /\ sentences # <<>>
    /\ input' = sentences[2]
    /\ sentences' = <<>>
    /\ applied' = FALSE

SplitNext ==
    \/ SplitApply /\ UNCHANGED streamVars /\ UNCHANGED concVars
         /\ UNCHANGED callVars
    \/ SplitAgain /\ UNCHANGED streamVars /\ UNCHANGED concVars
         /\ UNCHANGED callVars

InitSplit == StreamIdle /\ SplitInit /\ ConcIdle /\ CallIdle

SpecSplit == InitSplit /\ [][SplitNext]_vars

------------------------------------------------------------------------------
(* The request payload and the auxiliary calls: get_parameters and          *)
(* send_feedback.  op records the call and what the backend answered, ret   *)
(* what the call returned or raised.                                        *)

MaxMessages == 2
MaxForms == 2

\* Python None, among strings
None == "<None>"

\* bool(v) for a str or None
Truthy(v) == v \notin {None, ""}

Returns(v) == [kind |-> "return", val |-> v]
Raises(e)  == [kind |-> "raise", val |-> e]

\* All sequences over S of length at most n
SeqsUpTo(S, n) == UNION {[1..k -> S] : k \in 0..n}

\* The messages argument: dicts with a role and a content
Messages ==
    SeqsUpTo([role : {"user"}, content : {"", "hi", "yo"}], MaxMessages)

\* data with the first message as the query
RequestData_First(messages, user_id, conv, selection) ==
    [inputs |-> IF Truthy(selection) THEN {<<"selection", selection>>} ELSE {},
     query |-> IF messages # <<>> THEN messages[1].content ELSE "",
     response_mode |-> "streaming",
     user |-> user_id,
     conversation_id |-> conv]

\* data: the JSON body of the chat request; inputs is a set of key-value
\* pairs
RequestData(messages, user_id, conv, selection) ==
    [inputs |-> IF Truthy(selection) THEN {<<"selection", selection>>} ELSE {},
     query |-> IF messages # <<>> THEN messages[Len(messages)].content ELSE "",
     response_mode |-> "streaming",
     user |-> user_id,
     conversation_id |-> conv]

\* chat_completion up to the request: the payload is built from the arguments
BuildRequest ==
    /\ \E messages \in Messages, user_id \in {None, "u"},
          conv \in {"", "c0"}, selection \in {None, "", "s"} :
         /\ op' = [name |-> "chat_completion", messages |-> messages,
                   user_id |-> user_id, conversation_id |-> conv,
                   selection |-> selection]
         /\ ret' = Returns(RequestData(messages, user_id, conv, selection))
    /\ UNCHANGED <<files, stored>>

\* What the backend answers to a request: no answer at all (the request
\* raises), or a status with a body that parses as JSON or does not
Responses ==
    [failed : BOOLEAN, status : {200, 201, 204, 404, 500}, json : BOOLEAN]

send_feedback ==
    /\ \E r \in Responses :
         /\ op' = [name |-> "send_feedback", response |-> r]
         /\ ret' = IF r.failed THEN Returns(FALSE)
                   ELSE IF r.status # 200 THEN Returns(FALSE)
                   ELSE Returns(TRUE)
    /\ UNCHANGED <<files, stored>>

\* An entry of user_input_form: without a select key, with select: null,
\* with a select dict that has no options key, or with select.options
Forms ==
    [select : {"absent", "null", "no_options"}, options : {<<>>}]
        \cup [select : {"options"}, options : {<<>>, <<"a">>, <<"b", "c">>}]

RECURSIVE ScanForms_LastWins(_, _)
\* ScanForms without the break
ScanForms_LastWins(forms, select_options) ==
    IF forms = <<>> THEN Returns(select_options)
    ELSE LET input_form == Head(forms)
         IN  IF input_form.select = "absent"
             THEN ScanForms_LastWins(Tail(forms), select_options)
             ELSE IF input_form.select = "null" THEN Raises("TypeError")
             ELSE IF input_form.select = "options"
             THEN ScanForms_LastWins(Tail(forms), input_form.options)
             ELSE ScanForms_LastWins(Tail(forms), select_options)

RECURSIVE ScanForms(_, _)
\* for input_form in data.get("user_input_form", []): ... break
ScanForms(forms, select_options) ==
    IF forms = <<>> THEN Returns(select_options)
    ELSE LET input_form == Head(forms)
         IN  IF input_form.select = "absent"
             THEN ScanForms(Tail(forms), select_options)
             ELSE IF input_form.select = "null" THEN Raises("TypeError")
             ELSE IF input_form.select = "options"
             THEN Returns(input_form.options)
             ELSE ScanForms(Tail(forms), select_options)

get_parameters ==
    /\ \E r \in Responses, forms \in SeqsUpTo(Forms, MaxForms) :
         /\ op' = [name |-> "get_parameters", response |-> r, forms |-> forms]
         /\ ret' = IF r.failed \/ r.status # 200 \/ ~r.json
                   THEN Returns(<<>>)
                   ELSE LET scan == ScanForms(forms, <<>>)
                        IN  IF scan.kind = "raise" THEN Returns(<<>>) ELSE scan
    /\ UNCHANGED <<files, stored>>

InitCalls == StreamIdle /\ SplitIdle /\ ConcIdle /\ CallIdle

NextCalls ==
    \/ BuildRequest /\ UNCHANGED streamVars /\ UNCHANGED splitVars
         /\ UNCHANGED concVars
    \/ send_feedback /\ UNCHANGED streamVars /\ UNCHANGED splitVars
         /\ UNCHANGED concVars
    \/ get_parameters /\ UNCHANGED streamVars /\ UNCHANGED splitVars
         /\ UNCHANGED concVars

SpecCalls == InitCalls /\ [][NextCalls]_vars

------------------------------------------------------------------------------
(* chat_history_manager.py: paths.  A path is a str like any other; the     *)
(* fixed names chat_history, users and .json are written as one character   *)
(* each, which no identifier of the model contains.                         *)

NUL == "U+0000"

\* The characters of the model that the pattern of _is_safe_filename does
\* not admit: those below U+0020
ControlChars == {NL, "\t", "\r", NUL}

MaxFilename == 255

Sep == <<"/">>

\* os.path.basename(p)
basename(p) == SliceFrom(p, rfind(p, Sep) + 1)

RECURSIVE splitOn(_, _)
\* text.split(sep)
splitOn(text, sep) ==
    LET p == find(text, sep, 0)
    IN  IF p = -1 THEN <<text>>
        ELSE <<Slice(text, 0, p)>> \o splitOn(SliceFrom(text, p + Len(sep)), sep)

RECURSIVE joinWith(_, _)
\* sep.join(parts)
joinWith(parts, sep) ==
    IF parts = <<>> THEN <<>>
    ELSE IF Len(parts) = 1 THEN parts[1]
    ELSE parts[1] \o sep \o joinWith(Tail(parts), sep)

RECURSIVE Collapse(_, _)
\* The loop of posixpath.normpath over the components of a relative path
Collapse(comps, kept) ==
    IF comps = <<>> THEN kept
    ELSE LET c == Head(comps)
         IN  IF c = <<>> \/ c = <<".">> THEN Collapse(Tail(comps), kept)
             ELSE IF c # <<".", ".">> \/ kept = <<>>
                       \/ kept[Len(kept)] = <<".", ".">>
             THEN Collapse(Tail(comps), Append(kept, c))
             ELSE Collapse(Tail(comps), SubSeq(kept, 1, Len(kept) - 1))

\* os.path.normpath(p) for a relative path
normpath(p) ==
    LET kept == Collapse(splitOn(p, Sep), <<>>)
    IN  IF kept = <<>> THEN <<".">> ELSE joinWith(kept, Sep)

\* os.path.dirname(p) of a normalised path
dirname(p) == Slice(p, 0, Max({0, rfind(p, Sep)}))

\* re.match of ^[\w\-_\u0020-\u007E\u00A0-\uFFFF]+$ : every character in
\* the class, a final newline left aside by $
_is_safe_filename(filename) ==
    LET n    == Len(filename)
        body == IF n > 0 /\ filename[n] = NL THEN SubSeq(filename, 1, n - 1)
                ELSE filename
    IN  /\ filename # <<>>
        /\ n <= MaxFilename
        /\ body # <<>>
        /\ \A i \in 1..Len(body) : body[i] \notin ControlChars

_sanitize_path_component(component) ==
    LET sanitized == basename(strip(component))
    IN  IF _is_safe_filename(sanitized) THEN Returns(sanitized)
        ELSE Raises("ValueError")

\* os.path.join("chat_history", "users", safe_user_id)
UserDir(safe_user_id) == <<"chat_history", "/", "users", "/">> \o safe_user_id

_get_safe_history_path(user_id, history_uid) ==
    LET safe_user_id     == _sanitize_path_component(user_id)
        safe_history_uid == _sanitize_path_component(history_uid)
    IN  IF safe_user_id.kind = "raise" THEN safe_user_id
        ELSE IF safe_history_uid.kind = "raise" THEN safe_history_uid
        ELSE LET base_dir  == UserDir(safe_user_id.val)
                 full_path == normpath(base_dir \o Sep \o safe_history_uid.val
                                          \o <<".json">>)
             IN  IF ~startswith(full_path, base_dir) THEN Raises("ValueError")
                 ELSE Returns(full_path)

------------------------------------------------------------------------------
(* chat_history_manager.py: the history files.  files maps the normalised   *)
(* path of every file under chat_history to its content: a JSON list of     *)
(* entries, or text that does not parse.                                    *)

MaxEntries == 3
MaxTime == 0

\* A key the dict does not have
Absent == "<absent>"

EmptyMap == [p \in {} |-> <<>>]

Put(f, p, v) == [q \in DOMAIN f \cup {p} |-> IF q = p THEN v ELSE f[q]]

Remove(f, p) == [q \in DOMAIN f \ {p} |-> f[q]]

\* A file that json.load reads as the list data
Parsed(data) == [ok |-> TRUE, data |-> data]

\* A file that json.load raises on: cut short by a failed write
Corrupt == [ok |-> FALSE, data |-> <<>>]

\* The identifiers callers pass as user_id
UserIds == {<<"u">>, <<"v", "/", "u">>}

\* The history_uid create_new_history generates
GeneratedUids == {<<"h">>}

\* The identifiers callers pass as history_uid
HistoryUids == GeneratedUids \cup {<<"h", NUL>>}

Contents == {"a"}
Times == 0..MaxTime

\* An entry of a history file; a dict key that is missing is Absent, and a
\* missing user_id is the empty str, which no stored user_id is
Entry(role, timestamp, content, name, conv, user_id) ==
    [role |-> role, timestamp |-> timestamp, content |-> content,
     name |-> name, conversation_id |-> conv, user_id |-> user_id]

\* {"role": role, "timestamp": now_str, "content": content} and the name,
\* if one is given
NewItem(role, timestamp, content, name) ==
    Entry(role, timestamp, content, IF name = None THEN Absent ELSE name,
          Absent, <<>>)

\* The outcomes of open(filepath, "w") followed by json.dump: written, open
\* raised and the file is as before, or the dump raised and left the
\* truncated file
WriteOutcomes == {"written", "open_raises", "dump_raises"}

\* The clock does not run backwards: t is not before any timestamp on file
Now(t) ==
    \A p \in DOMAIN files :
        \A i \in 1..Len(files[p].data) : files[p].data[i].timestamp <= t

\* [msg for msg in history_data if msg["role"] != "metadata"]
ActualMessages(data) == SelectSeq(data, LAMBDA msg : msg.role # "metadata")

\* The role and content of each entry, for comparing with stored
RoleAndContent(data) ==
    [i \in 1..Len(data) |-> [role |-> data[i].role, content |-> data[i].content]]

\* The tracked paths whose file the call left as it was
KeepTracked(fs) ==
    [q \in {q \in DOMAIN stored :
               q \in DOMAIN fs /\ q \in DOMAIN files /\ fs[q] = files[q]}
        |-> stored[q]]

\* _ensure_user_dir(user_id); the directories themselves are not modelled
_ensure_user_dir(user_id) ==
    IF user_id = <<>> THEN Raises("ValueError")
    ELSE LET safe_user_id == _sanitize_path_component(user_id)
         IN  IF safe_user_id.kind = "raise" THEN safe_user_id
             ELSE Returns(UserDir(safe_user_id.val))

create_new_history ==
    \E user_id \in UserIds, history_uid \in GeneratedUids, t \in Times,
       w \in WriteOutcomes :
        LET user_dir == _ensure_user_dir(user_id)
            filepath == normpath(user_dir.val \o Sep \o history_uid
                                    \o <<".json">>)
            initial_data ==
                <<Entry("metadata", t, Absent, Absent, None, user_id)>>
        IN  /\ Now(t)
            /\ op' = [name |-> "create_new_history", user_id |-> user_id,
                      history_uid |-> history_uid]
            /\ IF user_id = <<>>
               THEN /\ ret' = Returns(<<>>)
                    /\ UNCHANGED <<files, stored>>
               ELSE IF user_dir.kind = "raise"
               THEN /\ ret' = user_dir
                    /\ UNCHANGED <<files, stored>>
               ELSE /\ filepath \notin DOMAIN files
                    /\ IF w = "written"
                       THEN /\ files' = Put(files, filepath, Parsed(initial_data))
                            /\ stored' = Put(stored, filepath, <<>>)
                            /\ ret' = Returns(history_uid)
                       ELSE IF w = "open_raises"
                       THEN /\ ret' = Returns(<<>>)
                            /\ UNCHANGED <<files, stored>>
                       ELSE /\ files' = Put(files, filepath, Corrupt)
                            /\ ret' = Returns(<<>>)
                            /\ UNCHANGED stored

\* StoreMessage putting the new item in front
StoreMessage_Prepends(fs, user_id, history_uid, role, content, name, t, w) ==
    IF user_id = <<>> \/ history_uid = <<>>
    THEN [ret |-> Returns(None), files |-> fs]
    ELSE LET filepath == _get_safe_history_path(user_id, history_uid)
         IN  IF filepath.kind = "raise" THEN [ret |-> filepath, files |-> fs]
             ELSE LET history_data ==
                          IF filepath.val \in DOMAIN fs /\ fs[filepath.val].ok
                          THEN fs[filepath.val].data ELSE <<>>
                      new_item == NewItem(role, t, content, name)
                  IN  IF w = "written"
                      THEN [ret |-> Returns(None),
                            files |-> Put(fs, filepath.val,
                                          Parsed(<<new_item>> \o history_data))]
                      ELSE IF w = "open_raises"
                      THEN [ret |-> Raises("OSError"), files |-> fs]
                      ELSE [ret |-> Raises("OSError"),
                            files |-> Put(fs, filepath.val, Corrupt)]

\* store_message(user_id, history_uid, role, content, name) at time t on the
\* files fs: what it returns or raises, and the files it leaves
StoreMessage(fs, user_id, history_uid, role, content, name, t, w) ==
    IF user_id = <<>> \/ history_uid = <<>>
    THEN [ret |-> Returns(None), files |-> fs]
    ELSE LET filepath == _get_safe_history_path(user_id, history_uid)
         IN  IF filepath.kind = "raise" THEN [ret |-> filepath, files |-> fs]
             ELSE LET history_data ==
                          IF filepath.val \in DOMAIN fs /\ fs[filepath.val].ok
                          THEN fs[filepath.val].data ELSE <<>>
                      new_item == NewItem(role, t, content, name)
                  IN  IF w = "written"
                      THEN [ret |-> Returns(None),
                            files |-> Put(fs, filepath.val,
                                          Parsed(Append(history_data, new_item)))]
                      ELSE IF w = "open_raises"
                      THEN [ret |-> Raises("OSError"), files |-> fs]
                      ELSE [ret |-> Raises("OSError"),
                            files |-> Put(fs, filepath.val, Corrupt)]

\* The file store_message is about to rewrite has room for one more entry
HasRoom(user_id, history_uid) ==
    LET filepath == _get_safe_history_path(user_id, history_uid)
    IN  (filepath.kind = "return" /\ filepath.val \in DOMAIN files)
            => Len(files[filepath.val].data) < MaxEntries

\* stored after a store_message that left the files fs: the message is
\* added to the record of a tracked file it was appended to
Tracked(fs, user_id, history_uid, role, content) ==
    LET filepath == _get_safe_history_path(user_id, history_uid)
        kept     == KeepTracked(fs)
    IN  IF /\ user_id # <<>> /\ history_uid # <<>>
           /\ filepath.kind = "return"
           /\ filepath.val \in DOMAIN stored
           /\ fs[filepath.val].ok
           /\ fs # files
        THEN Put(kept, filepath.val,
                 Append(stored[filepath.val],
                        [role |-> role, content |-> content]))
        ELSE kept

store_message ==
    \E user_id \in UserIds, history_uid \in HistoryUids,
       role \in {"human", "ai"}, content \in Contents, name \in {None},
       t \in Times, w \in WriteOutcomes :
        LET done == StoreMessage(files, user_id, history_uid, role, content,
                                 name, t, w)
        IN  /\ Now(t)
            /\ HasRoom(user_id, history_uid)
            /\ op' = [name |-> "store_message", user_id |-> user_id,
                      history_uid |-> history_uid, role |-> role,
                      content |-> content]
            /\ ret' = done.ret
            /\ files' = done.files
            /\ stored' = Tracked(done.files, user_id, history_uid, role, content)

get_history ==
    /\ \E user_id \in UserIds, history_uid \in HistoryUids :
         LET filepath == _get_safe_history_path(user_id, history_uid)
         IN  /\ op' = [name |-> "get_history", user_id |-> user_id,
                       history_uid |-> history_uid]
             /\ ret' = IF user_id = <<>> \/ history_uid = <<>> THEN Returns(<<>>)
                       ELSE IF filepath.kind = "raise" THEN filepath
                       ELSE IF filepath.val \notin DOMAIN files THEN Returns(<<>>)
                       ELSE IF ~files[filepath.val].ok THEN Returns(<<>>)
                       ELSE Returns(ActualMessages(files[filepath.val].data))
    /\ UNCHANGED <<files, stored>>

\* {} as a return value
EmptyDict == [role |-> Absent]

\* get_metadata(user_id, history_uid) on the files fs
GetMetadata(fs, user_id, history_uid) ==
    LET filepath == _get_safe_history_path(user_id, history_uid)
        history_data == fs[filepath.val].data
    IN  IF user_id = <<>> \/ history_uid = <<>> THEN Returns(EmptyDict)
        ELSE IF filepath.kind = "raise" THEN filepath
        ELSE IF filepath.val \notin DOMAIN fs THEN Returns(EmptyDict)
        ELSE IF history_data # <<>> /\ history_data[1].role = "metadata"
        THEN Returns(history_data[1])
        ELSE Returns(EmptyDict)

get_metadata ==
    /\ \E user_id \in UserIds, history_uid \in HistoryUids :
         /\ op' = [name |-> "get_metadata", user_id |-> user_id,
                   history_uid |-> history_uid]
         /\ ret' = GetMetadata(files, user_id, history_uid)
    /\ UNCHANGED <<files, stored>>

\* The metadata argument of update_metadate: a dict with a conversation_id,
\* a role, both or neither
Given ==
    [role : {Absent, "metadata", "human"}, conversation_id : {Absent, "c1"}]

\* entry.update(metadata)
Merge(entry, metadata) ==
    [entry EXCEPT
        !.role = IF metadata.role # Absent THEN metadata.role ELSE @,
        !.conversation_id = IF metadata.conversation_id # Absent
                            THEN metadata.conversation_id ELSE @]

\* Updated with history_data[0] replaced by the new record
Updated_Replaces(history_data, metadata, t) ==
    IF history_data # <<>> /\ history_data[1].role = "metadata"
    THEN <<Merge(Entry("metadata", t, Absent, Absent, Absent, <<>>), metadata)>>
             \o Tail(history_data)
    ELSE <<Merge(Entry("metadata", t, Absent, Absent, Absent, <<>>), metadata)>>
             \o history_data

\* history_data after update_metadate has merged or inserted the metadata
Updated(history_data, metadata, t) ==
    IF history_data # <<>> /\ history_data[1].role = "metadata"
    THEN <<Merge(history_data[1], metadata)>> \o Tail(history_data)
    ELSE <<Merge(Entry("metadata", t, Absent, Absent, Absent, <<>>), metadata)>>
             \o history_data

update_metadate ==
    \E user_id \in UserIds, history_uid \in HistoryUids, metadata \in Given,
       t \in Times, w \in WriteOutcomes :
        LET filepath == _get_safe_history_path(user_id, history_uid)
            history_data == files[filepath.val].data
            new_data == Updated(history_data, metadata, t)
        IN  /\ Now(t)
            /\ op' = [name |-> "update_metadate", user_id |-> user_id,
                      history_uid |-> history_uid, metadata |-> metadata]
            /\ IF user_id = <<>> \/ history_uid = <<>>
               THEN ret' = Returns(FALSE) /\ UNCHANGED files
               ELSE IF filepath.kind = "raise"
               THEN ret' = filepath /\ UNCHANGED files
               ELSE IF filepath.val \notin DOMAIN files
               THEN ret' = Returns(FALSE) /\ UNCHANGED files
               ELSE IF ~files[filepath.val].ok
               THEN ret' = Returns(FALSE) /\ UNCHANGED files
               ELSE /\ Len(new_data) <= MaxEntries
                    /\ IF w = "written"
                       THEN /\ files' = Put(files, filepath.val, Parsed(new_data))
                            /\ ret' = Returns(TRUE)
                       ELSE IF w = "open_raises"
                       THEN ret' = Returns(FALSE) /\ UNCHANGED files
                       ELSE /\ files' = Put(files, filepath.val, Corrupt)
                            /\ ret' = Returns(FALSE)
            /\ stored' = KeepTracked(files')

delete_history ==
    \E user_id \in UserIds, history_uid \in HistoryUids :
        LET filepath == _get_safe_history_path(user_id, history_uid)
        IN  /\ op' = [name |-> "delete_history", user_id |-> user_id,
                      history_uid |-> history_uid]
            /\ IF user_id = <<>> \/ history_uid = <<>>
               THEN ret' = Returns(FALSE) /\ UNCHANGED files
               ELSE IF filepath.kind = "raise"
               THEN ret' = filepath /\ UNCHANGED files
               ELSE IF filepath.val \in DOMAIN files
               THEN /\ files' = Remove(files, filepath.val)
                    /\ ret' = Returns(TRUE)
               ELSE ret' = Returns(FALSE) /\ UNCHANGED files
            /\ stored' = KeepTracked(files')

\* os.listdir(user_dir): the files right under the directory
ListDir(fs, user_dir) == {q \in DOMAIN fs : dirname(q) = normpath(user_dir)}

\* filename[:-5]
UidOf(filepath) == Slice(basename(filepath), 0, Len(basename(filepath)) - 1)

\* The files of the listing that read as a list without a message
EmptyHistories(fs, listing) ==
    {q \in listing : fs[q].ok /\ ActualMessages(fs[q].data) = <<>>}

\* history_info of a file that holds a message
HistoryInfo(fs, q) ==
    LET actual_messages == ActualMessages(fs[q].data)
        latest_message  == actual_messages[Len(actual_messages)]
    IN  [uid |-> UidOf(q), latest_message |-> latest_message,
         timestamp |-> latest_message.timestamp]

\* histories after the sort: listdir gives the files in any order and the
\* sort leaves equal timestamps in that order
SortedHistories(infos) ==
    {hs \in [1..Cardinality(infos) -> infos] :
        /\ \A i, j \in DOMAIN hs : i # j => hs[i] # hs[j]
        /\ \A i, j \in DOMAIN hs : i < j => hs[i].timestamp >= hs[j].timestamp}

\* len(empty_history_uids) > 0 and len(os.listdir(user_dir)) > 1
ShouldCleanUp(fs, listing) ==
    /\ EmptyHistories(fs, listing) # {}
    /\ Cardinality(listing) > 1

get_history_list ==
    \E user_id \in UserIds :
        LET user_dir == _ensure_user_dir(user_id)
            listing  == ListDir(files, user_dir.val)
            empty    == EmptyHistories(files, listing)
            infos    == {HistoryInfo(files, q) : q \in (listing \ empty) \cap
                             {q \in listing : files[q].ok}}
        IN  /\ op' = [name |-> "get_history_list", user_id |-> user_id]
            /\ IF user_id = <<>>
               THEN ret' = Returns(<<>>) /\ UNCHANGED files
               ELSE IF user_dir.kind = "raise"
               THEN ret' = user_dir /\ UNCHANGED files
               ELSE /\ files' = IF ShouldCleanUp(files, listing)
                                THEN [q \in DOMAIN files \ empty |-> files[q]]
                                ELSE files
                    /\ \E hs \in SortedHistories(infos) : ret' = Returns(hs)
            /\ stored' = KeepTracked(files')

\* What the agent gives for a turn: the response text and message id it
\* streamed, or an exception
AgentResponses ==
    [full_response : {"", "b"}, message_id : {"m1"}, raised : BOOLEAN]

\* process_single_conversation for a text input: it returns the response or
\* raises what a step of it raised.  store_message has no message_id
\* parameter, so the call that passes one raises TypeError.
process_single_conversation ==
    \E history_uid \in GeneratedUids \cup {<<>>}, user_id \in {<<"u">>},
       input_text \in {"", "a"}, r \in AgentResponses, t \in Times,
       w \in WriteOutcomes :
        LET human == IF history_uid # <<>>
                     THEN StoreMessage(files, user_id, history_uid, "human",
                                       input_text, "n", t, w)
                     ELSE [ret |-> Returns(None), files |-> files]
        IN  /\ Now(t)
            /\ HasRoom(user_id, history_uid)
            /\ op' = [name |-> "process_single_conversation",
                      user_id |-> user_id, history_uid |-> history_uid,
                      input_text |-> input_text, response |-> r]
            /\ IF input_text = ""
               THEN /\ ret' = Returns(None)
                    /\ UNCHANGED <<files, stored>>
               ELSE /\ files' = human.files
                    /\ stored' = IF history_uid # <<>>
                                 THEN Tracked(human.files, user_id, history_uid,
                                              "human", input_text)
                                 ELSE stored
                    /\ ret' = IF human.ret.kind = "raise" THEN human.ret
                              ELSE IF r.raised THEN Raises("Exception")
                              ELSE IF history_uid # <<>> /\ r.full_response # ""
                              THEN Raises("TypeError")
                              ELSE Returns(r.full_response)

InitHistory == StreamIdle /\ SplitIdle /\ ConcIdle /\ CallIdle

NextHistory ==
    \/ create_new_history /\ UNCHANGED streamVars /\ UNCHANGED splitVars
         /\ UNCHANGED concVars
    \/ store_message /\ UNCHANGED streamVars /\ UNCHANGED splitVars
         /\ UNCHANGED concVars
    \/ get_history /\ UNCHANGED streamVars /\ UNCHANGED splitVars
         /\ UNCHANGED concVars
    \/ delete_history /\ UNCHANGED streamVars /\ UNCHANGED splitVars
         /\ UNCHANGED concVars
    \/ process_single_conversation /\ UNCHANGED streamVars
         /\ UNCHANGED splitVars /\ UNCHANGED concVars

SpecHistory == InitHistory /\ [][NextHistory]_vars

------------------------------------------------------------------------------
(* The metadata calls on one history file, starting from a file that the  *)
(* calls above can have left.                                              *)

\* The path of the history h of user u
HistoryPath == UserDir(<<"u">>) \o Sep \o <<"h", ".json">>

\* The record create_new_history writes, with the conversation_id given
MetadataEntry(conv) == Entry("metadata", 0, Absent, Absent, conv, <<"u">>)

\* Histories as create_new_history, store_message and update_metadate
\* leave them
PreparedHistories ==
    {<<>>,
     <<MetadataEntry(None)>>,
     <<MetadataEntry("c0")>>,
     <<NewItem("human", 0, "a", "n")>>,
     <<MetadataEntry(None), NewItem("human", 0, "a", "n")>>,
     <<MetadataEntry("c0"), NewItem("human", 0, "a", "n"),
       NewItem("ai", 0, "b", None)>>}

InitMeta ==
    /\ StreamIdle /\ SplitIdle /\ ConcIdle
    /\ op = [name |-> "none"]
    /\ ret = [kind |-> "none"]
    /\ stored = EmptyMap
    /\ \/ files = EmptyMap
       \/ files = Put(EmptyMap, HistoryPath, Corrupt)
       \/ \E data \in PreparedHistories :
            files = Put(EmptyMap, HistoryPath, Parsed(data))

NextMeta ==
    \/ get_metadata /\ UNCHANGED streamVars /\ UNCHANGED splitVars
         /\ UNCHANGED concVars
    \/ update_metadate /\ UNCHANGED streamVars /\ UNCHANGED splitVars
         /\ UNCHANGED concVars

SpecMeta == InitMeta /\ [][NextMeta]_vars

------------------------------------------------------------------------------
(* get_history_list on a directory of histories that the calls above can   *)
(* have left.                                                              *)

MaxListTime == 1

\* The histories of the directory
ListedUids == {<<"h">>, <<"g">>, <<"k">>}

\* What a file of the directory holds: the metadata record alone, or with
\* one message stored at some time, or text that does not parse
ListedContents ==
    {Corrupt, Parsed(<<MetadataEntry(None)>>)}
        \cup {Parsed(<<MetadataEntry(None), NewItem("human", t, "a", "n")>>) :
                 t \in 0..MaxListTime}

\* The directories of user u: each history missing or with some content
ListedFiles ==
    UNION {[{UserDir(<<"u">>) \o Sep \o uid \o <<".json">> : uid \in U}
                -> ListedContents] : U \in SUBSET ListedUids}

InitList ==
    /\ StreamIdle /\ SplitIdle /\ ConcIdle
    /\ op = [name |-> "none"]
    /\ ret = [kind |-> "none"]
    /\ stored = EmptyMap
    /\ files \in ListedFiles

NextList ==
    \/ get_history_list /\ UNCHANGED streamVars /\ UNCHANGED splitVars
         /\ UNCHANGED concVars

SpecList == InitList /\ [][NextList]_vars

------------------------------------------------------------------------------
(* Vocabulary of the properties *)

\* A triple backtick at index i
IsFenceAt(text, i) ==
    /\ i + 3 <= Len(text)
    /\ \A k \in 1..3 : text[i + k] = Backtick

\* The indices that hold a special marker: a pipe or a triple backtick
MarkerIndices(text) ==
    {i \in 0..(Len(text) - 1) : text[i + 1] = "|" \/ IsFenceAt(text, i)}

IsPlain(text) == MarkerIndices(text) = {}

IsBlank(text) == \A i \in 1..Len(text) : text[i] \in Whitespace

\* The index of the fence that closes a block opened at index 0, or -1
ClosingFence(text) ==
    LET cs == {i \in 3..(Len(text) - 3) : IsFenceAt(text, i)}
    IN  IF cs = {} THEN -1 ELSE Min(cs)

\* The first non-whitespace character of the line is a pipe
PipeLine(line) ==
    \E i \in 1..Len(line) :
        /\ line[i] = "|"
        /\ \A j \in 1..(i - 1) : line[j] \in Whitespace

\* The lines of text: the maximal pieces without a newline
LinesOf(text) ==
    LET nls == {i \in 1..Len(text) : text[i] = NL}
        starts == {1} \cup {i + 1 : i \in nls}
    IN  {<<a, Min({i \in nls \cup {Len(text) + 1} : i >= a}) - 1>> : a \in starts}

LineText(text, ln) == IF ln[1] > ln[2] THEN <<>> ELSE SubSeq(text, ln[1], ln[2])

\* The text of every yielded text unit, concatenated in order
RECURSIVE EmittedText(_)
EmittedText(o) ==
    IF o = <<>> THEN <<>>
    ELSE (IF Head(o).kind = "text" THEN Head(o).val ELSE <<>>) \o EmittedText(Tail(o))

\* emitted is answer with newlines inserted: every character of answer, in
\* order, and nothing else but newlines
RECURSIVE OnlyNewlinesAdded(_, _)
OnlyNewlinesAdded(answer, emitted) ==
    IF emitted = <<>> THEN answer = <<>>
    ELSE IF answer # <<>> /\ Head(answer) = Head(emitted)
    THEN OnlyNewlinesAdded(Tail(answer), Tail(emitted))
    ELSE Head(emitted) = NL /\ OnlyNewlinesAdded(answer, Tail(emitted))

------------------------------------------------------------------------------
(* Properties of the stream *)

\* C1: once message_end has ended the stream, the emitted units concatenated
\* are the answer with nothing but newlines added: no answer character is
\* lost or reordered.
C1_NoCharacterLost ==
    (pc = "closed" /\ last = "message_end")
        => OnlyNewlinesAdded(received, EmittedText(out))

\* C2: after a message event has been handled, the retained buffer holds no
\* further unit: the segmentation step applied to it returns nothing.
C2_BufferHoldsNoUnit ==
    (pc = "streaming" /\ last = "message")
        => _split_complete_sentences(buffer) = <<>>

------------------------------------------------------------------------------
(* Properties of the segmentation step *)

\* C3: a buffer that starts with a pipe and whose lines are all pipe-lines is
\* a table still growing: the step returns no unit.
C3_GrowingTableNotEmitted ==
    (/\ applied
     /\ startswith(input, Pipe)
     /\ \A ln \in LinesOf(input) : PipeLine(LineText(input, ln)))
        => sentences = <<>>

\* The text starts with a pipe-line run that a non-pipe line follows
TableEnded(text) ==
    /\ text # <<>>
    /\ text[1] = "|"
    /\ \E ln \in LinesOf(text) : ~PipeLine(LineText(text, ln))

\* C4: when a non-pipe line follows the pipe-line run at the start of the
\* buffer, the unit is exactly that run and the remainder starts at the first
\* non-pipe line; the table example gives its three pipe-lines and "Done".
C4_TableUnit ==
    (applied /\ TableEnded(input))
        => /\ sentences # <<>>
           /\ sentences[1] \o <<NL>> \o sentences[2] = input
           /\ \A ln \in LinesOf(sentences[1]) : PipeLine(LineText(sentences[1], ln))
           /\ \E ln \in LinesOf(sentences[2]) :
                ln[1] = 1 /\ ~PipeLine(LineText(sentences[2], ln))
           /\ input = ExTable =>
                /\ sentences[1] = Slice(ExTable, 0, 17)
                /\ sentences[2] = <<"D", "o", "n", "e">>

C4_Witness ==
    /\ applied
    /\ input = ExTable
    /\ sentences # <<>>
    /\ Cardinality(LinesOf(sentences[1])) = 3

\* C5: a buffer that begins with a fence returns no unit while no closing
\* fence is present, whatever follows the opening fence; with a closing fence
\* it returns one unit, the text from the first fence to the second
\* inclusive (with at most the separating newline after it).
C5_FenceBlock ==
    (applied /\ IsFenceAt(input, 0))
        => IF ClosingFence(input) = -1
           THEN sentences = <<>>
           ELSE /\ Len(sentences) = 2
                /\ sentences[1] \in
                     {Slice(input, 0, ClosingFence(input) + 3),
                      Slice(input, 0, ClosingFence(input) + 3) \o <<NL>>}

C5_Witness ==
    /\ applied
    /\ IsFenceAt(input, 0)
    /\ ClosingFence(input) > 3
    /\ Len(input) > ClosingFence(input) + 3
    /\ sentences # <<>>
    /\ sentences[1] = Slice(input, 0, ClosingFence(input) + 3)

\* A complete fenced block was emitted from the start of the buffer
BlockEmitted == applied /\ IsFenceAt(input, 0) /\ ClosingFence(input) # -1

\* C6 as stated: the emitted block gets a trailing newline whenever the
\* remainder does not start with a newline, an empty remainder included.
C6_NewlineUnlessRemainderHasOne ==
    BlockEmitted
        => LET block == Slice(input, 0, ClosingFence(input) + 3)
               rest  == SliceFrom(input, ClosingFence(input) + 3)
           IN  /\ sentences # <<>>
               /\ sentences[2] = rest
               /\ sentences[1] =
                    IF rest # <<>> /\ rest[1] = NL THEN block ELSE block \o <<NL>>

\* C6 amended: the emitted block gets a trailing newline exactly when the
\* remainder is non-empty and does not start with a newline; the remainder
\* is returned unchanged.
C6_NewlineBeforeNonEmptyRemainder ==
    BlockEmitted
        => LET block == Slice(input, 0, ClosingFence(input) + 3)
               rest  == SliceFrom(input, ClosingFence(input) + 3)
           IN  /\ sentences # <<>>
               /\ sentences[2] = rest
               /\ sentences[1] =
                    IF rest = <<>> \/ rest[1] = NL THEN block ELSE block \o <<NL>>

C6_Witness ==
    /\ BlockEmitted
    /\ SliceFrom(input, ClosingFence(input) + 3) = <<"x">>
    /\ sentences # <<>>
    /\ sentences[1] = Slice(input, 0, ClosingFence(input) + 3) \o <<NL>>
    /\ sentences[2] = <<"x">>

\* C7: with the first special marker at index k > 0 the unit is the plain
\* text before it, with a newline appended unless it ends in one, and the
\* remainder is the buffer from k on; the "Hello" example yields "Hello\n"
\* and then, from the remainder, the whole fenced block.
C7_PlainPrefixFirst ==
    /\ (applied /\ MarkerIndices(input) # {} /\ Min(MarkerIndices(input)) > 0)
         => LET k      == Min(MarkerIndices(input))
                prefix == SubSeq(input, 1, k)
            IN  /\ sentences # <<>>
                /\ sentences[1] = IF prefix[k] = NL THEN prefix ELSE prefix \o <<NL>>
                /\ sentences[2] = SubSeq(input, k + 1, Len(input))
                /\ input = ExHello =>
                     sentences[1] = <<"H", "e", "l", "l", "o", NL>>
    /\ (applied /\ input = SliceFrom(ExHello, 5))
         => sentences = <<Slice(ExHello, 5, Len(ExHello) - 1), <<NL>>>>

C7_Witness ==
    /\ applied
    /\ input = SliceFrom(ExHello, 5)
    /\ sentences # <<>>
    /\ sentences[2] = <<NL>>

PrimaryBoundaries == {FwStop, FwQuestion, FwBang, FwSemicolon}

SecondaryBoundaries ==
    {FwComma, FwEnumComma, FwRParen, FwRBracket, FwRAngle, "U+0022", "U+0027", FwColon}

\* The indices from lo on that hold a primary boundary, or a newline with no
\* primary boundary anywhere before it
BoundaryIndices(text, lo) ==
    {i \in lo..(Len(text) - 1) :
        \/ text[i + 1] \in PrimaryBoundaries
        \/ /\ text[i + 1] = NL
           /\ \A j \in 1..i : text[j] \notin PrimaryBoundaries}

\* The unit is text up to and including index i, the remainder is the rest
CutsAfter(text, i) ==
    sentences = <<SubSeq(text, 1, i + 1), SubSeq(text, i + 2, Len(text))>>

PlainExample ==
    /\ (applied /\ input = ExPlain)
         => sentences = <<Slice(ExPlain, 0, 7), SliceFrom(ExPlain, 7)>>
    /\ (applied /\ input = SliceFrom(ExPlain, 7))
         => sentences = <<SliceFrom(ExPlain, 7), <<>>>>

\* C8 as stated: a non-blank buffer without markers is cut at the first index
\* that holds a primary boundary or a newline before any primary boundary,
\* index 0 included.
C8_CutAtFirstBoundary ==
    /\ (applied /\ ~IsBlank(input) /\ IsPlain(input)
                /\ BoundaryIndices(input, 0) # {})
         => CutsAfter(input, Min(BoundaryIndices(input, 0)))
    /\ PlainExample

\* C8 amended: the cut is at the first index greater than 0 that holds a
\* primary boundary or a newline with no primary boundary before it; a
\* boundary at index 0 does not cut.
C8_CutAtFirstBoundaryAfterStart ==
    /\ (applied /\ ~IsBlank(input) /\ IsPlain(input)
                /\ BoundaryIndices(input, 1) # {})
         => CutsAfter(input, Min(BoundaryIndices(input, 1)))
    /\ PlainExample

C8_Witness ==
    /\ applied
    /\ IsPlain(input)
    /\ Len(input) > 2
    /\ input[1] \in PrimaryBoundaries
    /\ BoundaryIndices(input, 1) # {}
    /\ sentences # <<>>
    /\ Len(sentences[1]) > 1

\* A buffer without markers, longer than the threshold, without a primary
\* boundary and without a newline that splits it
LongUncut(text) ==
    /\ IsPlain(text)
    /\ Len(text) > LengthThreshold
    /\ \A i \in 1..Len(text) : text[i] \notin PrimaryBoundaries
    /\ \A i \in 2..Len(text) : text[i] # NL

\* The indices lo .. 99 of the search window that hold a character of cs
WindowIndices(text, cs, lo) ==
    {i \in lo..((IF Len(text) < SearchWindow THEN Len(text) ELSE SearchWindow) - 1) :
        text[i + 1] \in cs}

\* The unit ends right after one of the indices idx
UnitEndsAt(idx) == sentences # <<>> /\ (Len(sentences[1]) - 1) \in idx

\* The secondary rule, with lo the lowest index a cut may follow
SecondaryRule(text, lo) ==
    /\ WindowIndices(text, SecondaryBoundaries, lo) # {}
         => UnitEndsAt(WindowIndices(text, SecondaryBoundaries, lo))
    /\ (/\ WindowIndices(text, SecondaryBoundaries, lo) = {}
        /\ WindowIndices(text, {" "}, lo) # {})
         => UnitEndsAt(WindowIndices(text, {" "}, lo))
    /\ sentences # <<>>
         => /\ sentences[1] \o sentences[2] = text
            /\ Len(sentences[1]) \in 1..SearchWindow
            /\ sentences[1][Len(sentences[1])] \in SecondaryBoundaries \cup {" "}
            /\ sentences[1][Len(sentences[1])] = " "
                 => WindowIndices(text, SecondaryBoundaries, lo) = {}

\* C9 as stated: a long buffer without a primary cut is cut right after a
\* secondary boundary of the first 100 characters, and after a space of that
\* window only if the window holds no secondary boundary; the unit is
\* non-empty, at most 100 long and ends with a secondary boundary or a space.
C9_SecondaryThenSpace ==
    (applied /\ LongUncut(input)) => SecondaryRule(input, 0)

\* C9 amended: as C9 for a non-blank buffer, with the secondary boundary and
\* the space taken among the indices 1 .. 99: a boundary or space at index 0
\* is not a place to cut.
C9_SecondaryThenSpaceAfterStart ==
    (applied /\ LongUncut(input) /\ ~IsBlank(input)) => SecondaryRule(input, 1)

C9_Witness ==
    /\ applied
    /\ LongUncut(input)
    /\ input[1] \in SecondaryBoundaries
    /\ WindowIndices(input, SecondaryBoundaries, 1) = {}
    /\ sentences # <<>>
    /\ sentences[1][Len(sentences[1])] = " "

\* C10: a buffer without markers of at most 50 characters that holds no
\* primary boundary and no newline returns no unit, secondary boundaries and
\* spaces in it notwithstanding.
C10_ShortBufferWaits ==
    (/\ applied
     /\ IsPlain(input)
     /\ Len(input) <= LengthThreshold
     /\ \A i \in 1..Len(input) : input[i] \notin PrimaryBoundaries \cup {NL})
        => sentences = <<>>

C10_Witness ==
    /\ applied
    /\ IsPlain(input)
    /\ Len(input) = LengthThreshold
    /\ \A i \in 1..Len(input) : input[i] \notin PrimaryBoundaries \cup {NL}
    /\ \E i \in 2..Len(input) : input[i] \in SecondaryBoundaries
    /\ sentences = <<>>

------------------------------------------------------------------------------
(* Vocabulary of the stream properties *)

\* The outputs the step yielded
Yielded == SliceFrom(out', Len(out))

\* The answer delta the step appended to the buffer
Delta == SliceFrom(received', Len(received))

TextUnits(o) == SelectSeq(o, LAMBDA u : u.kind = "text")

OfKind(o, kind) == SelectSeq(o, LAMBDA u : u.kind = kind)

------------------------------------------------------------------------------
(* Properties of the stream: blank buffers, endings, markers *)

\* C11 as stated: the segmentation step returns no unit for an empty or
\* whitespace-only buffer, and no step of chat_completion whose buffer
\* (with the delta just appended) is empty or whitespace-only yields a text
\* unit.
C11_BlankBufferNoUnit ==
    [][/\ IsBlank(buffer) => _split_complete_sentences(buffer) = <<>>
       /\ IsBlank(buffer \o Delta) => TextUnits(Yielded) = <<>>]_vars

\* C11 amended: the segmentation step returns no unit for an empty or
\* whitespace-only buffer, and the only text unit chat_completion yields
\* from such a buffer is the flush of a non-empty buffer at message_end.
C11_BlankBufferOnlyFlushed ==
    [][/\ IsBlank(buffer) => _split_complete_sentences(buffer) = <<>>
       /\ (IsBlank(buffer \o Delta) /\ TextUnits(Yielded) # <<>>)
             => /\ last' \in {"message_end", "close"}
                /\ Delta = <<>>
                /\ buffer # <<>>
                /\ TextUnits(Yielded) = <<Text(buffer)>>]_vars

C11_Witness ==
    /\ pc = "streaming"
    /\ last = "message"
    /\ buffer = <<NL, NL>>
    /\ TextUnits(out) = <<>>

\* C12: the step that handles message_end yields the whole buffer as exactly
\* one text unit when the buffer is non-empty and no text unit when it is
\* empty, yields nothing else but a conversation-id marker, leaves the
\* buffer empty and ends the stream.
C12_MessageEndFlushes ==
    [][(pc = "streaming" /\ last' = "message_end")
         => /\ TextUnits(Yielded) =
                  IF buffer # <<>> THEN <<Text(buffer)>> ELSE <<>>
            /\ Len(Yielded) = Len(TextUnits(Yielded))
                                + Len(OfKind(Yielded, "conversation_id"))
            /\ Yielded # <<>> => Yielded[Len(Yielded)].kind # "error"
            /\ buffer' = <<>>
            /\ pc' = "closed"]_vars

\* An unterminated code fence was flushed by message_end
C12_Witness ==
    /\ pc = "closed"
    /\ last = "message_end"
    /\ out # <<>>
    /\ out[Len(out)] = Text(Fence)

\* C13: the step that handles a backend error event or a transport failure
\* while the buffer holds text yields that text as one text unit before the
\* buffer is cleared.
C13_ErrorFlushesBuffer ==
    [][(pc = "streaming" /\ last' \in {"error", "exception"} /\ buffer # <<>>)
         => TextUnits(Yielded) = <<Text(buffer)>>]_vars

\* The step ends the invocation with a terminal error: the request failed,
\* the backend sent an error event, or reading the body raised
TerminalError ==
    /\ pc # "closed"
    /\ \/ last' \in {"error", "exception"}
       \/ last' = "request" /\ pc' = "closed"

\* C14: a step that meets a terminal error yields exactly one error string,
\* as its last output, and ends the generator; every step leaves the outputs
\* yielded so far in place, and no invocation holds two error strings.
C14_OneErrorOutput ==
    [][/\ TerminalError
            => /\ Len(OfKind(Yielded, "error")) = 1
               /\ Yielded[Len(Yielded)].kind = "error"
               /\ pc' = "closed"
       /\ Len(out') >= Len(out)
       /\ SubSeq(out', 1, Len(out)) = out
       /\ Len(OfKind(out', "error")) <= 1]_vars

\* A transport failure after a text unit had been yielded
C14_Witness ==
    /\ pc = "closed"
    /\ last = "exception"
    /\ TextUnits(out) # <<>>
    /\ out[Len(out)] = ErrorOut("transport")

\* C15: once an error event or a message_end event has been handled the
\* generator is closed and no step of the invocation is possible any more:
\* no later line is read, nothing further is yielded and the buffer stays
\* as it is.
C15_TerminalAbsorbing ==
    last \in {"error", "message_end"} => (pc = "closed" /\ ~ENABLED Next)

\* An error event ended the stream before the line bound, after a text unit
C15_Witness ==
    /\ last = "error"
    /\ nlines < MaxLines
    /\ TextUnits(out) # <<>>
    /\ buffer = <<>>

\* C16: when the caller gave no conversation_id, the outputs hold one
\* conversation-id marker once an event has carried a conversation_id, and
\* never more than one, however many events carry one.
C16_ConvMarkerOnce ==
    conversation_id = ""
        => Len(OfKind(out, "conversation_id")) = (IF carried THEN 1 ELSE 0)

\* C17: when the caller gave a non-empty conversation_id, the outputs hold
\* no conversation-id marker, whatever the events carry.
C17_NoConvMarkerWhenSupplied ==
    conversation_id # "" => OfKind(out, "conversation_id") = <<>>

\* A message event carrying a conversation_id was handled for a caller that
\* gave one
C17_Witness ==
    /\ conversation_id = "c0"
    /\ carried
    /\ last = "message"
    /\ out # <<>>

\* C18: the outputs of one stream hold at most one message-id marker when
\* every message_id the message events carry is the same.
C18_MsgMarkerOnce ==
    Len(OfKind(out, "message_id")) <= 1

\* C19: whenever the generator has terminated, by message_end, end of body,
\* error event, exception or the consumer closing it, the instance buffer
\* is empty.
C19_BufferClearedOnExit ==
    pc = "closed" => buffer = <<>>

\* The consumer closed the generator at the yield of the first unit of a
\* delta whose remainder would have stayed in the buffer
C19_Witness ==
    /\ pc = "closed"
    /\ last = "close"
    /\ received = <<"x", NL, "|", NL>>
    /\ TextUnits(out) = <<Text(<<"x", NL>>)>>
    /\ buffer = <<>>

------------------------------------------------------------------------------
(* Properties of two invocations on one instance *)

RECURSIVE Replay(_, _, _)
\* The message events of one invocation run on a buffer of its own: the
\* buffer left and the text units yielded for the deltas ds
Replay(ds, buf, units) ==
    IF ds = <<>> THEN [buffer |-> buf, units |-> units]
    ELSE LET b    == buf \o Head(ds)
             sent == IF Head(ds) # <<>> THEN _split_complete_sentences(b)
                     ELSE <<>>
         IN  IF sent # <<>>
             THEN Replay(Tail(ds), sent[2], Append(units, Text(sent[1])))
             ELSE Replay(Tail(ds), b, units)

\* The text units the invocation with locals l yields when it runs alone
AloneUnits(l) ==
    LET r == Replay(l.answers, <<>>, <<>>)
    IN  IF l.last = "message_end" /\ r.buffer # <<>>
        THEN Append(r.units, Text(r.buffer))
        ELSE r.units

\* C20: with two invocations in flight on one instance, the text units each
\* has yielded are those it yields alone on its own deltas, whatever the
\* other has received or however it has ended.
C20_InvocationsIsolated ==
    /\ TextUnits(out) = AloneUnits(Locals)
    /\ TextUnits(other.out) = AloneUnits(other)

\* C21: a line is handled as an event only if, trimmed, it is non-empty,
\* starts with "data: " and the rest parses as JSON; a step that reads a
\* blank line, a line without the prefix or a line with malformed JSON
\* yields nothing, leaves the buffer and all that decides the handling of
\* later lines unchanged, and leaves the stream open.
C21_BadLinesSkipped ==
    [][/\ \A line \in RawLines :
            LineKind(line) = "event"
                => /\ strip(line) # <<>>
                   /\ startswith(strip(line), DataPrefix)
                   /\ ParsesAsJson(SliceFrom(strip(line), Len(DataPrefix)))
       /\ (pc = "streaming" /\ last' \in {"blank", "noprefix", "malformed"})
            => /\ Yielded = <<>>
               /\ buffer' = buffer
               /\ pc' = "streaming"
               /\ UNCHANGED <<conversation_id, received, carried>>]_vars

\* A line with malformed JSON was skipped while text was buffered and the
\* next message event can be handled
C21_Witness ==
    /\ last = "malformed"
    /\ buffer = <<"x">>
    /\ ENABLED MessageEvent

\* C27: while the stream is open, the deltas received so far, concatenated,
\* are the text of the emitted units followed by the buffer, apart from the
\* newlines the newline-insertion rule added to units.
C27_BufferIsUnemittedText ==
    pc = "streaming" => OnlyNewlinesAdded(received, EmittedText(out) \o buffer)

------------------------------------------------------------------------------
(* Properties of the request payload and the auxiliary calls *)

\* C22: the payload has the keys inputs, query, response_mode, user and
\* conversation_id and no other; query is the content of the last message,
\* or "" when messages is empty; response_mode is "streaming"; user and
\* conversation_id are the arguments; inputs holds the key selection, with
\* the value given, exactly when a non-empty selection was given.
C22_PayloadShape ==
    op.name = "chat_completion"
        => /\ ret.kind = "return"
           /\ DOMAIN ret.val = {"inputs", "query", "response_mode", "user",
                                "conversation_id"}
           /\ ret.val.query = (IF op.messages = <<>> THEN ""
                               ELSE op.messages[Len(op.messages)].content)
           /\ ret.val.response_mode = "streaming"
           /\ ret.val.user = op.user_id
           /\ ret.val.conversation_id = op.conversation_id
           /\ ret.val.inputs = (IF op.selection \in {None, ""} THEN {}
                                ELSE {<<"selection", op.selection>>})

\* Two messages with different contents and a selection
C22_Witness ==
    /\ op.name = "chat_completion"
    /\ Len(op.messages) = 2
    /\ op.messages[1].content # op.messages[2].content
    /\ op.selection = "s"
    /\ ret.val.query = op.messages[2].content

\* The options of the first entry that has select.options, or none
FirstOptions(forms) ==
    LET I == {i \in 1..Len(forms) : forms[i].select = "options"}
    IN  IF I = {} THEN <<>> ELSE forms[Min(I)].options

\* Reading the entries raises before an entry with select.options is met
ScanFails(forms) ==
    \E j \in 1..Len(forms) :
        /\ forms[j].select = "null"
        /\ \A i \in 1..(j - 1) : forms[i].select # "options"

\* C23: send_feedback and get_parameters return and never raise;
\* send_feedback returns False when the request raised or the status is
\* not 2xx; get_parameters returns no options when the request raised, the
\* status is not 200 or reading the answer raised, and otherwise the
\* options of the first entry that has select.options, none if no entry has.
C23_AuxiliaryCallsNeverRaise ==
    /\ op.name = "send_feedback"
         => /\ ret.kind = "return"
            /\ (op.response.failed \/ op.response.status \notin 200..299)
                  => ret.val = FALSE
    /\ op.name = "get_parameters"
         => /\ ret.kind = "return"
            /\ ret.val =
                  (IF \/ op.response.failed
                      \/ op.response.status # 200
                      \/ ~op.response.json
                      \/ ScanFails(op.forms)
                   THEN <<>>
                   ELSE FirstOptions(op.forms))

\* get_parameters succeeded on a list whose two entries both have options
C23_Witness ==
    /\ op.name = "get_parameters"
    /\ ~op.response.failed /\ op.response.status = 200 /\ op.response.json
    /\ Len(op.forms) = 2
    /\ op.forms[1].select = "options"
    /\ op.forms[2].select = "options"
    /\ op.forms[1].options # op.forms[2].options
    /\ ret.val = op.forms[1].options

\* The path a call with these identifiers works on, if they are accepted
PathOf(call) == _get_safe_history_path(call.user_id, call.history_uid)

\* The file at p holds the metadata record and then the messages recorded
\* for it, in the order of the calls
HoldsRecorded(fs, rec, p) ==
    /\ p \in DOMAIN fs
    /\ fs[p].ok
    /\ fs[p].data # <<>>
    /\ fs[p].data[1].role = "metadata"
    /\ RoleAndContent(Tail(fs[p].data)) = rec[p]

\* C24: a history made by create_new_history and then written only by
\* store_message calls that succeeded holds the metadata record followed
\* by the messages of those calls, in call order, with their role and
\* content; each such call leaves the earlier entries as they were; and
\* get_history returns those messages, in that order, without the
\* metadata record.
C24_AppendOnly ==
    [][/\ \A p \in DOMAIN stored' : HoldsRecorded(files', stored', p)
       /\ \A p \in DOMAIN stored \cap DOMAIN stored' :
             /\ Len(files'[p].data) >= Len(files[p].data)
             /\ SubSeq(files'[p].data, 1, Len(files[p].data)) = files[p].data
       /\ (/\ op'.name = "get_history"
           /\ PathOf(op').kind = "return"
           /\ PathOf(op').val \in DOMAIN stored)
             => /\ ret'.kind = "return"
                /\ RoleAndContent(ret'.val) = stored[PathOf(op').val]
                /\ ret'.val = Tail(files[PathOf(op').val].data)]_vars

\* get_history has returned a human message and then an ai message, both
\* stored after create_new_history
C24_Witness ==
    /\ op.name = "get_history"
    /\ PathOf(op).kind = "return"
    /\ PathOf(op).val \in DOMAIN stored
    /\ Len(stored[PathOf(op).val]) = 2
    /\ stored[PathOf(op).val][1].role = "human"
    /\ stored[PathOf(op).val][2].role = "ai"
    /\ ret.kind = "return"
    /\ Len(ret.val) = 2

\* The identifier has a path separator, is or has the component "..", or
\* has a control character
Unsafe(identifier) ==
    \/ \E i \in 1..Len(identifier) :
          identifier[i] = "/" \/ identifier[i] \in ControlChars
    \/ \E i \in 1..Len(splitOn(identifier, Sep)) :
          splitOn(identifier, Sep)[i] = <<".", ".">>

\* C25: a history call given a user_id or a history_uid that has a path
\* separator, the component "..", or a control character raises
\* ValueError and leaves every file as it was.
C25_UnsafeIdentifierRejected ==
    [][(/\ op'.name \in {"create_new_history", "store_message",
                         "get_history", "delete_history"}
        /\ (Unsafe(op'.user_id) \/ Unsafe(op'.history_uid)))
          => (ret' = Raises("ValueError") /\ files' = files)]_vars

\* C26: store_message does not raise the error of a failed read or write
\* of the history file.
C26_StoreMessageSwallowsFailures ==
    op.name = "store_message" => ret # Raises("OSError")

\* C28: a text turn of process_single_conversation with a history id set,
\* whose human message was stored and whose agent gave a non-empty
\* response, returns the full response without raising.
C28_TurnReturnsResponse ==
    (/\ op.name = "process_single_conversation"
     /\ op.history_uid # <<>>
     /\ op.input_text # ""
     /\ ~op.response.raised
     /\ op.response.full_response # ""
     /\ ret # Raises("OSError"))
        => ret = Returns(op.response.full_response)

\* C29: get_history_list deletes no history that holds a message, and
\* deletes nothing when every history of the user is empty.
C29_EmptyKeptWhenAllEmpty ==
    [][op'.name = "get_history_list"
         => /\ \A q \in DOMAIN files \ EmptyHistories(files, DOMAIN files) :
                 q \in DOMAIN files' /\ files'[q] = files[q]
            /\ (DOMAIN files = EmptyHistories(files, DOMAIN files))
                 => files' = files]_vars

\* The fields of an entry that update_metadate can be given
GivenFields == {"role", "conversation_id"}

\* The record has every field the metadata argument gives
ContainsGiven(record, metadata) ==
    /\ record # EmptyDict
    /\ \A f \in GivenFields : metadata[f] # Absent => record[f] = metadata[f]

\* The entry after is the entry before with the given fields merged in
\* and every other field as it was
MergedInto(before, after, metadata) ==
    /\ ContainsGiven(after, metadata)
    /\ \A f \in DOMAIN before :
          (f \notin GivenFields \/ metadata[f] = Absent) => after[f] = before[f]

\* What the update_metadate call just made did: nothing but return False
\* on a missing file; on success, merge into the metadata record or
\* insert one at index 0, leave the messages and their order, and leave a
\* file on which get_metadata returns the given fields
UpdateChangesOnlyMetadata ==
    LET p        == PathOf(op').val
        metadata == op'.metadata
        before   == files[p].data
        after    == files'[p].data
    IN  /\ p \notin DOMAIN files => (ret' = Returns(FALSE) /\ files' = files)
        /\ ret' = Returns(TRUE) =>
              /\ DOMAIN files' = DOMAIN files
              /\ \A q \in DOMAIN files \ {p} : files'[q] = files[q]
              /\ files'[p].ok
              /\ ActualMessages(after) = ActualMessages(before)
              /\ IF before # <<>> /\ before[1].role = "metadata"
                 THEN /\ Len(after) = Len(before)
                      /\ Tail(after) = Tail(before)
                      /\ MergedInto(before[1], after[1], metadata)
                 ELSE /\ Tail(after) = before
                      /\ after[1].role = "metadata"
              /\ GetMetadata(files', op'.user_id, op'.history_uid).kind
                    = "return"
              /\ ContainsGiven(
                    GetMetadata(files', op'.user_id, op'.history_uid).val,
                    metadata)

MakesProgress ==
    (applied /\ sentences # <<>>)
        => /\ Len(sentences) = 2
           /\ sentences[1] # <<>>
           /\ Len(sentences[2]) < Len(input)
           /\ endswith(input, sentences[2])

\* C31: whenever _split_complete_sentences returns a unit for a buffer,
\* the unit is non-empty and the remainder is a suffix of the buffer and
\* strictly shorter than it; so each time the step is applied again to its
\* own remainder the buffer is shorter than before, and the applications
\* end.
C31_StepMakesProgress ==
    /\ []MakesProgress
    /\ [][(applied /\ ~applied') => Len(input') < Len(input)]_vars

\* The step took a table off the buffer and left a non-empty remainder
\* that, with the unit, is shorter than the buffer
C31_Witness ==
    /\ applied
    /\ sentences # <<>>
    /\ startswith(sentences[1], Pipe)
    /\ sentences[2] # <<>>
    /\ Len(sentences[1]) + Len(sentences[2]) < Len(input)

\* The response body has ended without a message_end or error event
EndedAtEof == last = "eof"

\* C32: when the response body ends without a message_end or error event,
\* chat_completion ends without yielding anything more: the step yields
\* nothing, the text held in the buffer is discarded, no error string is
\* among the outputs, and no further step is possible.
C32_EofDiscardsBuffer ==
    /\ [](EndedAtEof => /\ pc = "closed"
                        /\ buffer = <<>>
                        /\ OfKind(out, "error") = <<>>
                        /\ ~ENABLED Next)
    /\ [][(~EndedAtEof /\ EndedAtEof') => Yielded = <<>>]_vars

\* The body ended after message events whose text was never yielded
C32_Witness ==
    /\ EndedAtEof
    /\ received # <<>>
    /\ strip(received) # <<>>
    /\ TextUnits(out) = <<>>

\* The step handled an event that carries no text: an event of another
\* kind, or a message event whose answer is empty or missing
TextlessEvent ==
    /\ pc = "streaming"
    /\ nlines' = nlines + 1
    /\ \/ last' = "other"
       \/ last' = "message" /\ Delta = <<>>

\* C33: an event that carries no text (a well-formed event that is no
\* message, message_end or error event, or a message event whose answer is
\* empty or missing) yields nothing but control markers, leaves the buffer
\* exactly as it was, and the stream goes on.
C33_TextlessEventKeepsBuffer ==
    [][TextlessEvent
         => /\ buffer' = buffer
            /\ \A i \in 1..Len(Yielded) :
                  Yielded[i].kind \in {"conversation_id", "message_id"}
            /\ pc' = "streaming"]_vars

\* Two message events were handled, one of them without text, and the
\* buffer holds the text of the other
C33_Witness ==
    /\ pc = "streaming"
    /\ last = "message"
    /\ Len(OfKind(out, "message_id")) = 2
    /\ received = <<"x">>
    /\ buffer = <<"x">>

====
